---- MODULE Spec2Model ----
(***************************************************************************)
(* A model of dlib/dnn/cudnn_dlibapi.h: the tensor descriptor, the         *)
(* broadcasting add, the pointwise activation gradients, and the           *)
(* convolution and max-pooling engines with their native resources.        *)
(*                                                                         *)
(* The header holds the classes' data members, the inline move operations  *)
(* of tensor_descriptor and the documented contract (requires/ensures) of  *)
(* every operation.  Operations whose contract the header states are       *)
(* modelled from that contract; the out-of-line bodies of the constructors,*)
(* destructors, clear() and setup() are not in the header and are modelled *)
(* from the design description.                                            *)
(*                                                                         *)
(* Floating point values are modelled by exact integers (fixed point with  *)
(* unit 1/Scale where fractions are needed).                               *)
(***************************************************************************)
EXTENDS Integers, Sequences, FiniteSets, TLC

VARIABLES
    live,       \* native library: the handles/buffers currently allocated
    content,    \* native library: what each live handle is bound to
    nat_err,    \* native library: a release of a handle that is not live happened
    td,         \* the tensor_descriptor objects
    conv,       \* the tensor_conv object
    pool,       \* the max_pool object
    cfg,        \* the arguments of the setup() in force on each engine (<<>>: none)
    tens,       \* the tensors (shape and host() contents) the calls work on
    call,       \* the last call made: operation and arguments
    pre         \* the part of the state the last call read, as it was before the call

vars == <<live, content, nat_err, td, conv, pool, cfg, tens, call, pre>>

natVars == <<live, content, nat_err>>

engVars == <<conv, pool, cfg>>

(***************************************************************************)
(* Bounds of the model.                                                    *)
(***************************************************************************)
MaxIds == 6         \* native handles that can be live at once
MaxDim == 2         \* largest nr / nc given to tensor_descriptor::set_size
MaxT == 2           \* largest dimension of the tensors given to add
MaxCalls == 1       \* calls of add and of the other tensor functions made on the drawn inputs
MaxActCalls == 2    \* calls of the activation functions and their gradients in a row
MaxRows == 4        \* largest nr / nc of the data given to tensor_conv::setup
MaxFilter == 2      \* largest nr / nc of the filters given to tensor_conv::setup
MaxStride == 2      \* largest stride given to tensor_conv::setup
MaxGradCalls == 2   \* calls of each get_gradient_for_* made after one setup

NULL == 0           \* nullptr

Ids == 1..MaxIds

NoCall == [op |-> "none", who |-> "none", other |-> "none", args |-> <<>>, n |-> 0]

(***************************************************************************)
(* The native library (cuDNN / CUDA runtime): creation and destruction of  *)
(* descriptors and device buffers.  A fresh handle is the least one that   *)
(* is not live.                                                            *)
(***************************************************************************)
FreshId(lv) == CHOOSE h \in Ids \ lv : \A g \in Ids \ lv : h <= g

\* The library state <<live, content, nat_err>> after creating handle h bound to c.
NatCreate(nat, h, c) ==
    <<nat[1] \cup {h}, [nat[2] EXCEPT ![h] = c], nat[3]>>

\* The library state after destroying handle h (nullptr is never passed).
NatDestroy(nat, h) ==
    IF h \in nat[1]
    THEN <<nat[1] \ {h}, [nat[2] EXCEPT ![h] = <<>>], nat[3]>>
    ELSE <<nat[1], nat[2], TRUE>>

NatInit ==
    /\ live = {}
    /\ content = [h \in Ids |-> <<>>]
    /\ nat_err = FALSE

(***************************************************************************)
(* tensor_descriptor                                                       *)
(***************************************************************************)
Descs == {"d1", "d2"}

\* The arguments given to set_size: num_samples and k are 0 or 1.
SizeArgs ==
    {<<n, k, nr, nc>> : n \in {0, 1}, k \in {0, 1}, nr \in 0..MaxDim, nc \in 0..MaxDim}

\* tensor_descriptor(): an unbound descriptor.
TdDefault == [alive |-> TRUE, handle |-> NULL]

TdGone == [alive |-> FALSE, handle |-> NULL]

\* A move that copies the handle and leaves item as it was.
TdSwapCopy(t, d, s) ==
    [t EXCEPT ![d].handle = t[s].handle]

\* swap(item): std::swap(handle, item.handle)
TdSwap(t, d, s) ==
    [t EXCEPT ![d].handle = t[s].handle, ![s].handle = t[d].handle]

\* get_size(n, k, nr, nc)
GetSize(d) ==
    IF td[d].handle # NULL THEN content[td[d].handle] ELSE <<0, 0, 0, 0>>

\* What a call on the descriptors may read: the objects and their sizes.
TdSnapshot == [td |-> td, size |-> [d \in Descs |-> GetSize(d)]]

\* A set_size that binds its arguments as they are.
BoundShapeRaw(a) == a

\* The shape set_size binds: all zero as soon as one argument is zero.

BoundShape(a) ==
    IF a[1] = 0 \/ a[2] = 0 \/ a[3] = 0 \/ a[4] = 0 THEN <<0, 0, 0, 0>> ELSE a

TdConstruct(d) ==
    /\ ~td[d].alive
    /\ td' = [td EXCEPT ![d] = TdDefault]
    /\ call' = [op |-> "td_construct", who |-> d, other |-> "none", args |-> <<>>, n |-> 0]
    /\ pre' = TdSnapshot
    /\ UNCHANGED <<natVars, engVars, tens>>

TdSetSize(d, a) ==
    /\ td[d].alive
    /\ LET nat0 == <<live, content, nat_err>>
           nat1 == IF td[d].handle # NULL THEN NatDestroy(nat0, td[d].handle) ELSE nat0
           h == FreshId(nat1[1])
           bound == BoundShape(a)
           nat2 == IF bound[1] = 0 THEN nat1 ELSE NatCreate(nat1, h, bound)
       IN /\ td' = [td EXCEPT ![d].handle = IF bound[1] = 0 THEN NULL ELSE h]
          /\ live' = nat2[1]
          /\ content' = nat2[2]
          /\ nat_err' = nat2[3]
    /\ call' = [op |-> "set_size", who |-> d, other |-> "none", args |-> a, n |-> 0]
    /\ pre' = TdSnapshot
    /\ UNCHANGED <<engVars, tens>>

\* tensor_descriptor(tensor_descriptor&& item) : tensor_descriptor() { swap(item); }
TdMoveConstruct(d, s) ==
    /\ ~td[d].alive
    /\ td[s].alive
    /\ td' = TdSwap([td EXCEPT ![d] = TdDefault], d, s)
    /\ call' = [op |-> "move_construct", who |-> d, other |-> s, args |-> <<>>, n |-> 0]
    /\ pre' = TdSnapshot
    /\ UNCHANGED <<natVars, engVars, tens>>

\* tensor_descriptor& operator=(tensor_descriptor&& item) { swap(item); return *this; }
TdMoveAssign(d, s) ==
    /\ d # s
    /\ td[d].alive
    /\ td[s].alive
    /\ td' = TdSwap(td, d, s)
    /\ call' = [op |-> "move_assign", who |-> d, other |-> s, args |-> <<>>, n |-> 0]
    /\ pre' = TdSnapshot
    /\ UNCHANGED <<natVars, engVars, tens>>

\* ~tensor_descriptor()
TdDestroy(d) ==
    /\ td[d].alive
    /\ LET nat0 == <<live, content, nat_err>>
           nat1 == IF td[d].handle # NULL THEN NatDestroy(nat0, td[d].handle) ELSE nat0
       IN /\ live' = nat1[1]
          /\ content' = nat1[2]
          /\ nat_err' = nat1[3]
    /\ td' = [td EXCEPT ![d] = TdGone]
    /\ call' = [op |-> "td_destroy", who |-> d, other |-> "none", args |-> <<>>, n |-> 0]
    /\ pre' = TdSnapshot
    /\ UNCHANGED <<engVars, tens>>

\* No setup() is in force on either engine.
\* ncalls counts the get_gradient_for_data (gd) and get_gradient_for_filters
\* (gf) calls made since the last tensor_conv::setup, and the
\* max_pool::get_gradient calls (pg) made since the last max_pool::operator().
NoCfg == [conv |-> <<>>, pool |-> <<>>, replaced |-> [conv |-> FALSE, pool |-> FALSE],
          ncalls |-> [gd |-> 0, gf |-> 0, pg |-> 0]]

\* The engines, in the specifications that construct none.
EnginesUnused ==
    /\ conv = [alive |-> FALSE]
    /\ pool = [alive |-> FALSE]
    /\ cfg = NoCfg

InitDesc ==
    /\ NatInit
    /\ td = [d \in Descs |-> IF d = "d1" THEN TdDefault ELSE TdGone]
    /\ EnginesUnused
    /\ tens = <<>>
    /\ call = NoCall
    /\ pre = TdSnapshot

NextDesc ==
    \E d \in Descs :
        \/ TdConstruct(d)
        \/ \E a \in SizeArgs : TdSetSize(d, a)
        \/ \E s \in Descs : TdMoveConstruct(d, s)
        \/ \E s \in Descs : TdMoveAssign(d, s)
        \/ TdDestroy(d)

SpecDesc == InitDesc /\ [][NextDesc]_vars

\* The descriptors that hold native handle h.
Owners(h) == {d \in Descs : td[d].alive /\ td[d].handle = h}

\* Every live native handle is held by exactly one descriptor, every handle a
\* descriptor holds is live, and no handle was released twice.
SingleOwner ==
    /\ \A h \in live : Cardinality(Owners(h)) = 1
    /\ \A d \in Descs : td[d].alive /\ td[d].handle # NULL => td[d].handle \in live
    /\ \A d \in Descs : ~td[d].alive => td[d].handle = NULL
    /\ ~nat_err

IsMove == call.op \in {"move_construct", "move_assign"}

\* C6 as stated: after a move construction or a move assignment the destination
\* holds the handle the source held, the source is in the default (unbound)
\* state, also when the destination of the assignment was bound, and every
\* native handle has exactly one owner.
C6_MoveLeavesSourceDefault ==
    /\ SingleOwner
    /\ IsMove =>
          /\ td[call.who].handle = pre.td[call.other].handle
          /\ td[call.other] = TdDefault

\* C6 amended: a move construction leaves the source in the default (unbound)
\* state; a move assignment exchanges the two handles, so the source then holds
\* the handle the destination held before (it is unbound only if the
\* destination was); in both the destination holds the source's former handle,
\* and at every point every native handle has exactly one owner.
C6_MoveTransfersOwnership ==
    /\ SingleOwner
    /\ IsMove => td[call.who].handle = pre.td[call.other].handle
    /\ call.op = "move_construct" => td[call.other] = TdDefault
    /\ call.op = "move_assign" =>
          /\ td[call.other].handle = pre.td[call.who].handle
          /\ td[call.other].alive

\* A move assignment whose destination and source were both bound.
C6_Witness ==
    /\ call.op = "move_assign"
    /\ pre.td[call.who].handle # NULL
    /\ pre.td[call.other].handle # NULL
    /\ td[call.who].handle = pre.td[call.other].handle

AllZero(sz) == sz = <<0, 0, 0, 0>>
NoneZero(sz) == \A i \in 1..4 : sz[i] # 0

\* C7: after set_size(n,k,nr,nc), get_size returns (n,k,nr,nc) if all four are
\* non-zero and (0,0,0,0) otherwise; a set_size on one descriptor leaves the
\* size of every other descriptor as it was; and get_size never returns a shape
\* in which some but not all dimensions are zero.
C7_GetSizeIsLastSetSize ==
    /\ call.op = "set_size" =>
          /\ GetSize(call.who) = IF NoneZero(call.args) THEN call.args ELSE <<0, 0, 0, 0>>
          /\ \A d \in Descs \ {call.who} : GetSize(d) = pre.size[d]
    /\ \A d \in Descs : AllZero(GetSize(d)) \/ NoneZero(GetSize(d))

\* set_size with a zero among non-zero arguments, on a descriptor bound to a
\* non-empty shape, while the other descriptor keeps a non-empty shape.
C7_Witness ==
    /\ call.op = "set_size"
    /\ ~AllZero(call.args) /\ ~NoneZero(call.args)
    /\ NoneZero(pre.size[call.who])
    /\ AllZero(GetSize(call.who))
    /\ \E d \in Descs \ {call.who} : NoneZero(GetSize(d))

(***************************************************************************)
(* Tensors: a shape <<num_samples, k, nr, nc>> and the host() buffer, laid *)
(* out sample by sample, channel by channel, row by row.                   *)
(***************************************************************************)
Size(sh) == sh[1] * sh[2] * sh[3] * sh[4]

\* a / b on ints, b > 0: the quotient rounded towards zero.
IntDiv(a, b) == IF a >= 0 THEN a \div b ELSE -((-a) \div b)

\* The place in the buffer (from 1) of element (n,k,r,c), indices from 0.
Offset(sh, n, k, r, c) == ((n * sh[2] + k) * sh[3] + r) * sh[4] + c + 1

At(t, n, k, r, c) == t.data[Offset(t.shape, n, k, r, c)]

\* The indices <<n,k,r,c>> of the element at place i of the buffer.
Coords(sh, i) ==
    <<((i - 1) \div (sh[2] * sh[3] * sh[4])),
      ((i - 1) \div (sh[3] * sh[4])) % sh[2],
      ((i - 1) \div sh[4]) % sh[3],
      (i - 1) % sh[4]>>

\* A tensor whose elements are all different: seed + place.
Filled(sh, seed) == [shape |-> sh, data |-> [i \in 1..Size(sh) |-> seed + i]]

\* A tensor whose elements all have the value v.
Constant(sh, v) == [shape |-> sh, data |-> [i \in 1..Size(sh) |-> v]]

(***************************************************************************)
(* add(beta, dest, alpha, src): dest = beta*dest + alpha*src, where a      *)
(* dimension of src that is 1 supplies its one value to the whole of that  *)
(* dimension of dest.                                                      *)
(***************************************************************************)
\* The element of src added into the element of dest at indices ix.
SrcElement(src, ix) ==
    At(src, IF src.shape[1] = 1 THEN 0 ELSE ix[1],
            IF src.shape[2] = 1 THEN 0 ELSE ix[2],
            IF src.shape[3] = 1 THEN 0 ELSE ix[3],
            IF src.shape[4] = 1 THEN 0 ELSE ix[4])

\* An add that takes beta to be 1.
AddResultBetaOne(beta, dest, alpha, src) ==
    [dest EXCEPT !.data = [i \in 1..Size(dest.shape) |->
        dest.data[i] + alpha * SrcElement(src, Coords(dest.shape, i))]]

\* dest after add(beta, dest, alpha, src).
AddResult(beta, dest, alpha, src) ==
    [dest EXCEPT !.data = [i \in 1..Size(dest.shape) |->
        beta * dest.data[i] + alpha * SrcElement(src, Coords(dest.shape, i))]]

\* requires: every dimension of src equals dest's or is 1.
AddRequires(dest, src) ==
    \A i \in 1..4 : dest.shape[i] = src.shape[i] \/ src.shape[i] = 1

Add(beta, d, alpha, s) ==
    /\ call.n < MaxCalls
    /\ d # s
    /\ AddRequires(tens[d], tens[s])
    /\ tens' = [tens EXCEPT ![d] = AddResult(beta, tens[d], alpha, tens[s])]
    /\ call' = [op |-> "add", who |-> d, other |-> s, args |-> <<beta, alpha>>,
                n |-> call.n + 1]
    /\ pre' = tens
    /\ UNCHANGED <<natVars, td, engVars>>

\* t after set_tensor(t, value).
SetTensorResult(t, value) ==
    [t EXCEPT !.data = [i \in 1..Size(t.shape) |-> value]]

SetTensor(t, value) ==
    /\ call.n < MaxCalls
    /\ tens' = [tens EXCEPT ![t] = SetTensorResult(tens[t], value)]
    /\ call' = [op |-> "set_tensor", who |-> t, other |-> "none", args |-> <<value>>,
                n |-> call.n + 1]
    /\ pre' = tens
    /\ UNCHANGED <<natVars, td, engVars>>

\* t after scale_tensor(t, value): E = E*value for every element E.
ScaleTensorResult(t, value) ==
    [t EXCEPT !.data = [i \in 1..Size(t.shape) |-> t.data[i] * value]]

ScaleTensor(t, value) ==
    /\ call.n < MaxCalls
    /\ tens' = [tens EXCEPT ![t] = ScaleTensorResult(tens[t], value)]
    /\ call' = [op |-> "scale_tensor", who |-> t, other |-> "none", args |-> <<value>>,
                n |-> call.n + 1]
    /\ pre' = tens
    /\ UNCHANGED <<natVars, td, engVars>>

\* The sum of the elements of the sequence s.
RECURSIVE SeqSum(_)
SeqSum(s) == IF s = <<>> THEN 0 ELSE Head(s) + SeqSum(Tail(s))

\* grad after add_conv_bias_gradient(grad, gradient_input).  OUT + BIAS adds
\* BIAS[k] to every element of channel k, so the gradient of
\* dot(gradient_input, OUT) with respect to BIAS[k] is the sum of channel k of
\* gradient_input over the samples, rows and columns.
AddConvBiasGradientResult(grad, gi) ==
    [grad EXCEPT !.data = [k \in 1..grad.shape[2] |->
        SeqSum([n \in 1..gi.shape[1] |->
            SeqSum([r \in 1..gi.shape[3] |->
                SeqSum([c \in 1..gi.shape[4] |-> At(gi, n - 1, k - 1, r - 1, c - 1)])])])]]

AddConvBiasGradient(g, gi) ==
    /\ call.n < MaxCalls
    /\ tens[g].shape[1] = 1
    /\ tens[g].shape[2] >= 1
    /\ tens[g].shape[3] = 1
    /\ tens[g].shape[4] = 1
    /\ tens[gi].shape[2] = tens[g].shape[2]
    /\ Size(tens[gi].shape) > 0
    /\ g # gi
    /\ tens' = [tens EXCEPT ![g] = AddConvBiasGradientResult(tens[g], tens[gi])]
    /\ call' = [op |-> "add_conv_bias_gradient", who |-> g, other |-> gi, args |-> <<>>,
                n |-> call.n + 1]
    /\ pre' = tens
    /\ UNCHANGED <<natVars, td, engVars>>

AddShapes == {<<n, k, r, c>> : n \in 1..MaxT, k \in 1..MaxT, r \in 1..MaxT, c \in 1..MaxT}

InitAdd ==
    /\ NatInit
    /\ td = [d \in Descs |-> TdGone]
    /\ EnginesUnused
    /\ \E dsh \in AddShapes, ssh \in AddShapes, ds \in {0, 3} :
          /\ \A i \in 1..4 : ssh[i] = dsh[i] \/ ssh[i] = 1
          /\ tens = [dest |-> Filled(dsh, ds), src |-> Filled(ssh, 1)]
    /\ call = NoCall
    /\ pre = tens

NextAdd ==
    \/ \E beta \in {0, 1, 2}, alpha \in {-1, 0, 1, 2} : Add(beta, "dest", alpha, "src")
    \/ \E t \in {"dest", "src"}, value \in {0, 2} : SetTensor(t, value)
    \/ \E t \in {"dest", "src"}, value \in {-1, 3} : ScaleTensor(t, value)
    \/ AddConvBiasGradient("src", "dest")

SpecAdd == InitAdd /\ [][NextAdd]_vars

\* C9: after add(beta, dest, alpha, src) every element dest[n,k,r,c] is
\* beta*old_dest[n,k,r,c] + alpha*src[n % src.num_samples, k % src.k,
\* r % src.nr, c % src.nc], and src and the shape of dest are unchanged.
C9_AddBroadcasts ==
    call.op = "add" =>
        LET old == pre.dest
            src == pre.src
            sh == old.shape
        IN /\ tens.src = src
           /\ tens.dest.shape = sh
           /\ DOMAIN tens.dest.data = 1..Size(sh)
           /\ \A n \in 0..(sh[1] - 1), k \in 0..(sh[2] - 1),
                 r \in 0..(sh[3] - 1), c \in 0..(sh[4] - 1) :
                    At(tens.dest, n, k, r, c) =
                        call.args[1] * At(old, n, k, r, c)
                      + call.args[2] * At(src, n % src.shape[1], k % src.shape[2],
                                               r % src.shape[3], c % src.shape[4])

\* An add with several dimensions broadcast at once (k and nc) and others not,
\* with a scaling of dest and of src that changes dest.
C9_Witness ==
    /\ call.op = "add"
    /\ pre.dest.shape = <<2, 2, 2, 2>>
    /\ pre.src.shape = <<2, 1, 2, 1>>
    /\ call.args = <<2, -1>>
    /\ tens.dest # pre.dest

(***************************************************************************)
(* sigmoid_gradient, relu_gradient, tanh_gradient: dest is the output of   *)
(* the forward function on some SRC, f(SRC) == dot(gradient_input,dest),   *)
(* and the gradient of f with respect to SRC is assigned to grad.  grad    *)
(* may be the same object as gradient_input, never the same as dest.       *)
(* The forward functions sigmoid, relu, tanh and softmax write dest from    *)
(* src, which may be dest itself.                                           *)
(* Values are fixed point numbers: the integer v stands for v/Scale, and a *)
(* function's value is computed exactly and rounded once, to the nearest   *)
(* multiple of 1/Scale.                                                    *)
(***************************************************************************)
Scale == 2 * 2

\* a / b rounded to the nearest integer, b > 0.
RoundDiv(a, b) ==
    IF a >= 0 THEN (2 * a + b) \div (2 * b) ELSE -((2 * (-a) + b) \div (2 * b))

\* std::exp(x/Scale) in thousandths, for x/Scale from -2 to 2.
ExpMilli ==
    LET t == <<135, 174, 223, 287, 368, 472, 607, 779, 1000,
               1284, 1649, 2117, 2718, 3490, 4482, 5755, 7389>>
    IN [x \in (-2 * Scale)..(2 * Scale) |-> t[x + 2 * Scale + 1]]

\* 1/(1+std::exp(-x))
SigmoidValue(x) == RoundDiv(Scale * 1000, 1000 + ExpMilli[-x])

\* std::max(0,x)
ReluValue(x) == IF x > 0 THEN x ELSE 0

\* std::tanh(x)
TanhValue(x) ==
    RoundDiv(Scale * (ExpMilli[x] - ExpMilli[-x]), ExpMilli[x] + ExpMilli[-x])

\* dest after sigmoid(dest, src).
SigmoidResult(dest, src) ==
    [dest EXCEPT !.data = [i \in DOMAIN src.data |-> SigmoidValue(src.data[i])]]

\* dest after relu(dest, src).
ReluResult(dest, src) ==
    [dest EXCEPT !.data = [i \in DOMAIN src.data |-> ReluValue(src.data[i])]]

\* dest after tanh(dest, src).
TanhResult(dest, src) ==
    [dest EXCEPT !.data = [i \in DOMAIN src.data |-> TanhValue(src.data[i])]]

\* dest after softmax(dest, src): at each sample, row and column,
\* exp(x)/sum(exp(x)) over the channels there.
SoftmaxResult(dest, src) ==
    [dest EXCEPT !.data = [i \in DOMAIN src.data |->
        LET ix == Coords(src.shape, i)
        IN RoundDiv(Scale * ExpMilli[src.data[i]],
                    SeqSum([k \in 1..src.shape[2] |->
                        ExpMilli[At(src, ix[1], k - 1, ix[3], ix[4])]]))]]

\* grad after softmax_gradient(grad, dest, gradient_input): with s == dest and
\* g == gradient_input, the gradient at channel k of a location is
\* s[k]*(g[k] - sum over the channels j there of g[j]*s[j]).
SoftmaxGradientResult(grad, dest, gi) ==
    [grad EXCEPT !.data = [i \in DOMAIN grad.data |->
        LET ix == Coords(dest.shape, i)
        IN RoundDiv(dest.data[i] *
                      (Scale * gi.data[i] - SeqSum([k \in 1..dest.shape[2] |->
                           At(gi, ix[1], k - 1, ix[3], ix[4]) *
                           At(dest, ix[1], k - 1, ix[3], ix[4])])),
                    Scale * Scale)]]

\* d(dest)/d(SRC) written in terms of dest, exact, in units of
\* 1/(Scale*Scale): dest*(1-dest), 1 or 0, and 1-dest*dest.
SigmoidDeriv(d) == d * (Scale - d)
ReluDeriv(d) == IF d > 0 THEN Scale * Scale ELSE 0
TanhDeriv(d) == Scale * Scale - d * d

\* gradient_input*f' for f' in units of 1/(Scale*Scale), rounded to the unit.
TimesDeriv(g, deriv) == RoundDiv(g * deriv, Scale * Scale)

\* grad after sigmoid_gradient(grad, dest, gradient_input).
SigmoidGradientResult(grad, dest, gi) ==
    [grad EXCEPT !.data = [i \in DOMAIN grad.data |->
        TimesDeriv(gi.data[i], SigmoidDeriv(dest.data[i]))]]

\* A relu_gradient that adds the gradient to grad.
ReluGradientAccumulate(grad, dest, gi) ==
    [grad EXCEPT !.data = [i \in DOMAIN grad.data |->
        grad.data[i] + TimesDeriv(gi.data[i], ReluDeriv(dest.data[i]))]]

\* grad after relu_gradient(grad, dest, gradient_input).
ReluGradientResult(grad, dest, gi) ==
    [grad EXCEPT !.data = [i \in DOMAIN grad.data |->
        TimesDeriv(gi.data[i], ReluDeriv(dest.data[i]))]]

\* grad after tanh_gradient(grad, dest, gradient_input).
TanhGradientResult(grad, dest, gi) ==
    [grad EXCEPT !.data = [i \in DOMAIN grad.data |->
        TimesDeriv(gi.data[i], TanhDeriv(dest.data[i]))]]

\* requires of the three gradient functions.
GradientRequires(g, d, gi) ==
    /\ g # d
    /\ tens[d].shape = tens[gi].shape
    /\ tens[d].shape = tens[g].shape

InRange(t, lo, hi) == \A i \in DOMAIN t.data : lo <= t.data[i] /\ t.data[i] <= hi

Softmax(d, s) ==
    /\ call.n < MaxActCalls
    /\ tens[d].shape = tens[s].shape
    /\ tens' = [tens EXCEPT ![d] = SoftmaxResult(tens[d], tens[s])]
    /\ call' = [op |-> "softmax", who |-> d, other |-> s, args |-> <<>>, n |-> call.n + 1]
    /\ pre' = tens
    /\ UNCHANGED <<natVars, td, engVars>>

Sigmoid(d, s) ==
    /\ call.n < MaxActCalls
    /\ tens[d].shape = tens[s].shape
    /\ tens' = [tens EXCEPT ![d] = SigmoidResult(tens[d], tens[s])]
    /\ call' = [op |-> "sigmoid", who |-> d, other |-> s, args |-> <<>>, n |-> call.n + 1]
    /\ pre' = tens
    /\ UNCHANGED <<natVars, td, engVars>>

Relu(d, s) ==
    /\ call.n < MaxActCalls
    /\ tens[d].shape = tens[s].shape
    /\ tens' = [tens EXCEPT ![d] = ReluResult(tens[d], tens[s])]
    /\ call' = [op |-> "relu", who |-> d, other |-> s, args |-> <<>>, n |-> call.n + 1]
    /\ pre' = tens
    /\ UNCHANGED <<natVars, td, engVars>>

Tanh(d, s) ==
    /\ call.n < MaxActCalls
    /\ tens[d].shape = tens[s].shape
    /\ tens' = [tens EXCEPT ![d] = TanhResult(tens[d], tens[s])]
    /\ call' = [op |-> "tanh", who |-> d, other |-> s, args |-> <<>>, n |-> call.n + 1]
    /\ pre' = tens
    /\ UNCHANGED <<natVars, td, engVars>>

SoftmaxGradient(g, d, gi) ==
    /\ call.n < MaxActCalls
    /\ GradientRequires(g, d, gi)
    /\ InRange(tens[d], 0, Scale)
    /\ tens' = [tens EXCEPT ![g] = SoftmaxGradientResult(tens[g], tens[d], tens[gi])]
    /\ call' = [op |-> "softmax_gradient", who |-> g, other |-> d, args |-> <<gi>>,
                n |-> call.n + 1]
    /\ pre' = tens
    /\ UNCHANGED <<natVars, td, engVars>>

SigmoidGradient(g, d, gi) ==
    /\ call.n < MaxActCalls
    /\ GradientRequires(g, d, gi)
    /\ InRange(tens[d], 0, Scale)
    /\ tens' = [tens EXCEPT ![g] = SigmoidGradientResult(tens[g], tens[d], tens[gi])]
    /\ call' = [op |-> "sigmoid_gradient", who |-> g, other |-> d, args |-> <<gi>>,
                n |-> call.n + 1]
    /\ pre' = tens
    /\ UNCHANGED <<natVars, td, engVars>>

ReluGradient(g, d, gi) ==
    /\ call.n < MaxActCalls
    /\ GradientRequires(g, d, gi)
    /\ InRange(tens[d], 0, 2 * Scale)
    /\ tens' = [tens EXCEPT ![g] = ReluGradientResult(tens[g], tens[d], tens[gi])]
    /\ call' = [op |-> "relu_gradient", who |-> g, other |-> d, args |-> <<gi>>,
                n |-> call.n + 1]
    /\ pre' = tens
    /\ UNCHANGED <<natVars, td, engVars>>

TanhGradient(g, d, gi) ==
    /\ call.n < MaxActCalls
    /\ GradientRequires(g, d, gi)
    /\ InRange(tens[d], -Scale, Scale)
    /\ tens' = [tens EXCEPT ![g] = TanhGradientResult(tens[g], tens[d], tens[gi])]
    /\ call' = [op |-> "tanh_gradient", who |-> g, other |-> d, args |-> <<gi>>,
                n |-> call.n + 1]
    /\ pre' = tens
    /\ UNCHANGED <<natVars, td, engVars>>

\* Two channels at one location.
ActShape == <<1, 2, 1, 1>>

ActTensors(vals) ==
    {[shape |-> ActShape, data |-> <<a, b>>] : a \in vals, b \in vals}

InitAct ==
    /\ NatInit
    /\ td = [d \in Descs |-> TdGone]
    /\ EnginesUnused
    /\ \E g \in {Constant(ActShape, 0), Constant(ActShape, Scale)},
          s \in ActTensors({-Scale, 0, 2, 2 * Scale}),
          gi \in ActTensors({-Scale, Scale, 2 * Scale}) :
            tens = [grad |-> g, dest |-> Constant(ActShape, 0), src |-> s,
                    gradient_input |-> gi]
    /\ call = NoCall
    /\ pre = tens

NextAct ==
    \/ \E s \in {"src", "dest"} :
          \/ Sigmoid("dest", s)
          \/ Relu("dest", s)
          \/ Tanh("dest", s)
          \/ Softmax("dest", s)
    \/ \E g \in {"grad", "gradient_input"} :
          \/ SigmoidGradient(g, "dest", "gradient_input")
          \/ ReluGradient(g, "dest", "gradient_input")
          \/ TanhGradient(g, "dest", "gradient_input")
          \/ SoftmaxGradient(g, "dest", "gradient_input")

SpecAct == InitAct /\ [][NextAct]_vars

IsActGradient == call.op \in {"sigmoid_gradient", "relu_gradient", "tanh_gradient"}

\* gradient_input*f'(SRC) at one element, g being the value of gradient_input
\* and d the value of dest there.
ClosedForm(op, g, d) ==
    CASE op = "sigmoid_gradient" -> RoundDiv(g * d * (Scale - d), Scale * Scale)
      [] op = "relu_gradient" -> IF d > 0 THEN g ELSE 0
      [] op = "tanh_gradient" -> RoundDiv(g * (Scale * Scale - d * d), Scale * Scale)

\* C10 as stated: with grad aliasing neither dest nor gradient_input, after the
\* call grad[i] == old_grad[i] + gradient_input[i]*f'(i), f' from dest only.
C10_GradientAddsToGrad ==
    IsActGradient /\ call.who # call.args[1] =>
        \A i \in DOMAIN tens[call.who].data :
            tens[call.who].data[i] =
                pre[call.who].data[i]
              + ClosedForm(call.op, pre[call.args[1]].data[i], pre[call.other].data[i])

\* C10 amended: the three gradient functions assign to grad: with grad not
\* aliasing dest (it may alias gradient_input), after the call
\* grad[i] == gradient_input[i]*f'(i) with gradient_input as it was before the
\* call and f' computed from dest only, whatever grad held before; dest is
\* unchanged, and gradient_input changes only when it is grad.
C10_GradientAssignsGrad ==
    IsActGradient =>
        /\ \A i \in DOMAIN tens[call.who].data :
            tens[call.who].data[i] =
                ClosedForm(call.op, pre[call.args[1]].data[i], pre[call.other].data[i])
        /\ tens[call.who].shape = pre[call.who].shape
        /\ \A t \in DOMAIN tens : t # call.who => tens[t] = pre[t]

\* relu_gradient on a grad that held non-zero values and is a tensor of its
\* own, dest being the output of relu: the old contents are gone, the result is
\* gradient_input where dest > 0.
C10_Witness ==
    /\ call.op = "relu_gradient"
    /\ call.who = "grad"
    /\ pre.grad.data = <<Scale, Scale>>
    /\ pre.dest.data = <<2, 0>>
    /\ pre.dest = ReluResult(pre.dest, pre.src)
    /\ pre.gradient_input.data = <<2 * Scale, Scale>>
    /\ tens.grad.data = <<2 * Scale, 0>>

(***************************************************************************)
(* tensor_conv: the data members of the class, the native descriptors and  *)
(* the scratch buffer they point to, and the operations.  setup() makes    *)
(* three calls that acquire a native resource (the filter descriptor, the  *)
(* convolution descriptor, the scratch buffer); each of them can fail, and *)
(* a setup() that fails releases what it had acquired and reports the      *)
(* error, leaving the object as clear() leaves it.                         *)
(***************************************************************************)
\* tensor_conv(): nothing is held.
ConvUnconfigured ==
    [alive |-> TRUE,
     filter_handle |-> NULL, conv_handle |-> NULL,
     stride_y |-> 0, stride_x |-> 0,
     out_num_samples |-> 0, out_k |-> 0, out_nr |-> 0, out_nc |-> 0,
     forward_algo |-> 0, forward_workspace_size_in_bytes |-> 0,
     forward_workspace |-> NULL,
     backward_data_algo |-> 0, backward_data_workspace_size_in_bytes |-> 0,
     backward_data_workspace |-> NULL,
     backward_filters_algo |-> 0, backward_filters_workspace_size_in_bytes |-> 0,
     backward_filters_workspace |-> NULL]

ConvConfigured(c) == c.alive /\ c.filter_handle # NULL

\* The native handles and device buffers the members of c point to.
ConvHandles(c) ==
    <<c.filter_handle, c.conv_handle, c.forward_workspace,
      c.backward_data_workspace, c.backward_filters_workspace>>

\* The native resources c owns: the two descriptors and the scratch buffer,
\* which the three workspace pointers designate.
ConvOwned(c) == <<c.filter_handle, c.conv_handle, c.forward_workspace>>

\* Destroy, in order, every handle of hs that is not nullptr.
RECURSIVE ReleaseAll(_, _)
ReleaseAll(nat, hs) ==
    IF hs = <<>> THEN nat
    ELSE ReleaseAll(IF Head(hs) # NULL THEN NatDestroy(nat, Head(hs)) ELSE nat, Tail(hs))

\* Output dimensions rounded down, as max_pool has them.
ConvOutShapeFloor(dsh, fsh, sy, sx) ==
    <<dsh[1], fsh[1], dsh[3] \div sy, dsh[4] \div sx>>

\* Output dimensions of a convolution that keeps the filter inside the data.
ConvOutShapeValid(dsh, fsh, sy, sx) ==
    <<dsh[1], fsh[1], 1 + (dsh[3] - fsh[3]) \div sy, 1 + (dsh[4] - fsh[4]) \div sx>>

\* The dimensions of the output of operator().
ConvOutShape(dsh, fsh, sy, sx) ==
    <<dsh[1], fsh[1], 1 + IntDiv(dsh[3] - 1, sy), 1 + IntDiv(dsh[4] - 1, sx)>>

\* The native library's choice of algorithm for a configuration and the bytes of
\* workspace the chosen algorithm needs (a fixed function of the configuration).
FwdAlgo(k) == IF k.filters[3] * k.filters[4] = 1 THEN 0 ELSE 1
BwdDataAlgo(k) == IF k.stride_y * k.stride_x = 1 THEN 1 ELSE 0
BwdFiltersAlgo(k) == (k.data[1] + k.filters[1]) % 2

FwdWorkspaceBytes(k) ==
    LET out == ConvOutShape(k.data, k.filters, k.stride_y, k.stride_x)
    IN 4 * (1 + FwdAlgo(k) * k.filters[2] * k.filters[3] * k.filters[4] * out[3] * out[4])
BwdDataWorkspaceBytes(k) == 4 * (1 + k.data[2] * k.data[3] * k.data[4])
BwdFiltersWorkspaceBytes(k) == 4 * (2 + Size(k.filters))

Max3(a, b, c) ==
    IF a >= b /\ a >= c THEN a ELSE IF b >= c THEN b ELSE c

\* A device buffer for each of the three operations, of the size that
\* operation requires.
AllocWorkspacesSeparate(nat, fwd, bd, bf) ==
    LET p1 == FreshId(nat[1])
        nat1 == NatCreate(nat, p1, <<fwd>>)
        p2 == FreshId(nat1[1])
        nat2 == NatCreate(nat1, p2, <<bd>>)
        p3 == FreshId(nat2[1])
        nat3 == NatCreate(nat2, p3, <<bf>>)
    IN <<nat3, p1, p2, p3>>

\* The single scratch buffer, of the largest of the three sizes, which the
\* three operations use: <<library state, forward_workspace,
\* backward_data_workspace, backward_filters_workspace>>.
AllocWorkspaces(nat, fwd, bd, bf) ==
    LET p == FreshId(nat[1])
    IN <<NatCreate(nat, p, <<Max3(fwd, bd, bf)>>), p, p, p>>

\* clear() that frees each of the three workspace pointers.
ConvClearResultPerPointer(c, nat) ==
    <<ConvUnconfigured, ReleaseAll(nat, ConvHandles(c))>>

\* clear(): <<the object, the library state>> afterwards.
ConvClearResult(c, nat) ==
    <<ConvUnconfigured, ReleaseAll(nat, ConvOwned(c))>>

\* setup() that keeps the descriptors, algorithms and scratch buffer it
\* already has.
ConvSetupResultStale(c, nat, k, fail) ==
    IF ConvConfigured(c) /\ fail = 0
    THEN <<[c EXCEPT !.stride_y = k.stride_y, !.stride_x = k.stride_x], nat>>
    ELSE
    LET nat0 == ConvClearResult(c, nat)[2]
        fh == FreshId(nat0[1])
        nat1 == NatCreate(nat0, fh, k.filters)
        ch == FreshId(nat1[1])
        nat2 == NatCreate(nat1, ch, <<k.stride_y, k.stride_x>>)
        out == ConvOutShape(k.data, k.filters, k.stride_y, k.stride_x)
        ws == AllocWorkspaces(nat2, FwdWorkspaceBytes(k), BwdDataWorkspaceBytes(k),
                              BwdFiltersWorkspaceBytes(k))
        built == [alive |-> TRUE,
          filter_handle |-> fh, conv_handle |-> ch,
          stride_y |-> k.stride_y, stride_x |-> k.stride_x,
          out_num_samples |-> out[1], out_k |-> out[2],
          out_nr |-> out[3], out_nc |-> out[4],
          forward_algo |-> FwdAlgo(k),
          forward_workspace_size_in_bytes |-> FwdWorkspaceBytes(k),
          forward_workspace |-> ws[2],
          backward_data_algo |-> BwdDataAlgo(k),
          backward_data_workspace_size_in_bytes |-> BwdDataWorkspaceBytes(k),
          backward_data_workspace |-> ws[3],
          backward_filters_algo |-> BwdFiltersAlgo(k),
          backward_filters_workspace_size_in_bytes |-> BwdFiltersWorkspaceBytes(k),
          backward_filters_workspace |-> ws[4]]
    IN CASE fail = 1 -> <<ConvUnconfigured, nat0>>
         [] fail = 2 -> <<ConvUnconfigured, ReleaseAll(nat1, <<fh>>)>>
         [] fail = 3 -> <<ConvUnconfigured, ReleaseAll(nat2, <<fh, ch>>)>>
         [] OTHER -> <<built, ws[1]>>

\* setup(data, filters, stride_y, stride_x): <<the object, the library state>>
\* afterwards.  What was held is released, then the descriptors are created and
\* bound, the output dimensions, the three algorithms and their workspace sizes
\* are recorded and the scratch buffer is allocated.  fail names the native
\* call that fails: 1 the creation of the filter descriptor, 2 the creation of
\* the convolution descriptor, 3 the allocation of the scratch buffer, 0 none.
ConvSetupResult(c, nat, k, fail) ==
    LET nat0 == ConvClearResult(c, nat)[2]
        fh == FreshId(nat0[1])
        nat1 == NatCreate(nat0, fh, k.filters)
        ch == FreshId(nat1[1])
        nat2 == NatCreate(nat1, ch, <<k.stride_y, k.stride_x>>)
        out == ConvOutShape(k.data, k.filters, k.stride_y, k.stride_x)
        ws == AllocWorkspaces(nat2, FwdWorkspaceBytes(k), BwdDataWorkspaceBytes(k),
                              BwdFiltersWorkspaceBytes(k))
        built == [alive |-> TRUE,
          filter_handle |-> fh, conv_handle |-> ch,
          stride_y |-> k.stride_y, stride_x |-> k.stride_x,
          out_num_samples |-> out[1], out_k |-> out[2],
          out_nr |-> out[3], out_nc |-> out[4],
          forward_algo |-> FwdAlgo(k),
          forward_workspace_size_in_bytes |-> FwdWorkspaceBytes(k),
          forward_workspace |-> ws[2],
          backward_data_algo |-> BwdDataAlgo(k),
          backward_data_workspace_size_in_bytes |-> BwdDataWorkspaceBytes(k),
          backward_data_workspace |-> ws[3],
          backward_filters_algo |-> BwdFiltersAlgo(k),
          backward_filters_workspace_size_in_bytes |-> BwdFiltersWorkspaceBytes(k),
          backward_filters_workspace |-> ws[4]]
    IN CASE fail = 1 -> <<ConvUnconfigured, nat0>>
         [] fail = 2 -> <<ConvUnconfigured, ReleaseAll(nat1, <<fh>>)>>
         [] fail = 3 -> <<ConvUnconfigured, ReleaseAll(nat2, <<fh, ch>>)>>
         [] OTHER -> <<built, ws[1]>>

(***************************************************************************)
(* max_pool                                                                *)
(***************************************************************************)
\* max_pool(): nothing is held.
PoolUnconfigured == [alive |-> TRUE, handle |-> NULL, stride_y |-> 0, stride_x |-> 0]

PoolConfigured(p) == p.alive /\ p.handle # NULL

\* clear(): <<the object, the library state>> afterwards.
PoolClearResult(p, nat) == <<PoolUnconfigured, ReleaseAll(nat, <<p.handle>>)>>

\* setup(window_height, window_width, stride_y, stride_x), w being the four
\* arguments: what was held is released, then the pooling descriptor is created
\* and bound.  fail is 1 when the creation of the descriptor fails, else 0.
PoolSetupResult(p, nat, w, fail) ==
    LET nat0 == PoolClearResult(p, nat)[2]
        h == FreshId(nat0[1])
    IN IF fail = 1
       THEN <<PoolUnconfigured, nat0>>
       ELSE <<[alive |-> TRUE, handle |-> h, stride_y |-> w[3], stride_x |-> w[4]],
              NatCreate(nat0, h, w)>>

\* The dimensions of the output of max_pool::operator().
PoolOutShape(ssh, sy, sx) == <<ssh[1], ssh[2], IntDiv(ssh[3], sy), IntDiv(ssh[4], sx)>>

PoolGone == [PoolUnconfigured EXCEPT !.alive = FALSE]

\* The greatest element of a non-empty set of numbers.
SetMax(S) == CHOOSE m \in S : \A x \in S : x <= m

\* The rows (or columns) of src under the window of output row (or column) r:
\* len of them from r*stride on, clipped to the n rows (or columns) src has.
Window(r, stride, len, n) ==
    {y \in 0..(n - 1) : r * stride <= y /\ y < r * stride + len}

\* dest after operator()(dest, src) of the max_pool p whose pooling descriptor
\* holds w == <<window_height, window_width, stride_y, stride_x>>.
PoolForwardResult(p, w, src) ==
    LET osh == PoolOutShape(src.shape, p.stride_y, p.stride_x)
    IN [shape |-> osh,
        data |-> [i \in 1..Size(osh) |->
            LET ix == Coords(osh, i)
            IN SetMax({At(src, ix[1], ix[2], y, x) :
                          y \in Window(ix[3], p.stride_y, w[1], src.shape[3]),
                          x \in Window(ix[4], p.stride_x, w[2], src.shape[4])})]]

\* grad after get_gradient(gradient_input, dest, src, grad): dest[i] is the
\* greatest element of src under window i, so the gradient of
\* dot(gradient_input, dest) with respect to that element of src is
\* gradient_input[i], summed over the windows it is the greatest of; the
\* gradient is added to grad.  (The elements under one window are supposed
\* all different.)
PoolGetGradientResult(p, w, gi, dest, src, grad) ==
    [grad EXCEPT !.data = [j \in 1..Size(src.shape) |->
        LET jx == Coords(src.shape, j)
        IN grad.data[j] +
           SeqSum([i \in 1..Size(dest.shape) |->
               LET ix == Coords(dest.shape, i)
               IN IF /\ ix[1] = jx[1]
                     /\ ix[2] = jx[2]
                     /\ jx[3] \in Window(ix[3], p.stride_y, w[1], src.shape[3])
                     /\ jx[4] \in Window(ix[4], p.stride_x, w[2], src.shape[4])
                     /\ src.data[j] = dest.data[i]
                  THEN gi.data[i] ELSE 0])]]

\* What a call on an engine may read.
EngSnapshot ==
    [handles |-> [conv |-> ConvHandles(conv), pool |-> <<pool.handle>>], live |-> live]

EngCall(op, who) == [op |-> op, who |-> who, other |-> "none", args |-> <<>>, n |-> 0]

ConvConstruct ==
    /\ ~conv.alive
    /\ conv' = ConvUnconfigured
    /\ cfg' = [cfg EXCEPT !.conv = <<>>, !.replaced.conv = FALSE]
    /\ call' = EngCall("construct", "conv")
    /\ pre' = EngSnapshot
    /\ UNCHANGED <<natVars, td, pool, tens>>

\* setup(t.data, t.filters, sy, sx), t being the tensors the caller has prepared.
ConvSetup(t, sy, sx) ==
    /\ conv.alive
    /\ t.filters.shape[2] = t.data.shape[2]
    /\ sy > 0
    /\ sx > 0
    /\ LET k == [data |-> t.data.shape, filters |-> t.filters.shape,
                 stride_y |-> sy, stride_x |-> sx]
           r == ConvSetupResult(conv, <<live, content, nat_err>>, k, 0)
       IN /\ conv' = r[1]
          /\ live' = r[2][1]
          /\ content' = r[2][2]
          /\ nat_err' = r[2][3]
          /\ cfg' = [cfg EXCEPT !.conv = k,
                                !.replaced.conv = cfg.conv # <<>> /\ cfg.conv # k,
                                !.ncalls.gd = 0, !.ncalls.gf = 0]
    /\ tens' = t
    /\ call' = EngCall("setup", "conv")
    /\ pre' = EngSnapshot
    /\ UNCHANGED <<td, pool>>

\* setup(t.data, t.filters, sy, sx) in which the native call named by fail
\* fails: the error is reported and no configuration is in force.
ConvSetupFails(t, sy, sx, fail) ==
    /\ conv.alive
    /\ t.filters.shape[2] = t.data.shape[2]
    /\ sy > 0
    /\ sx > 0
    /\ fail \in 1..3
    /\ LET k == [data |-> t.data.shape, filters |-> t.filters.shape,
                 stride_y |-> sy, stride_x |-> sx]
           r == ConvSetupResult(conv, <<live, content, nat_err>>, k, fail)
       IN /\ conv' = r[1]
          /\ live' = r[2][1]
          /\ content' = r[2][2]
          /\ nat_err' = r[2][3]
    /\ cfg' = [cfg EXCEPT !.conv = <<>>, !.replaced.conv = FALSE,
                          !.ncalls.gd = 0, !.ncalls.gf = 0]
    /\ tens' = t
    /\ call' = EngCall("setup_failed", "conv")
    /\ pre' = EngSnapshot
    /\ UNCHANGED <<td, pool>>

ConvClear ==
    /\ conv.alive
    /\ LET r == ConvClearResult(conv, <<live, content, nat_err>>)
       IN /\ conv' = r[1]
          /\ live' = r[2][1]
          /\ content' = r[2][2]
          /\ nat_err' = r[2][3]
    /\ cfg' = [cfg EXCEPT !.conv = <<>>, !.replaced.conv = FALSE]
    /\ call' = EngCall("clear", "conv")
    /\ pre' = EngSnapshot
    /\ UNCHANGED <<td, pool, tens>>

\* ~tensor_conv(): clear(), and the object is gone.
ConvDestroy ==
    /\ conv.alive
    /\ LET r == ConvClearResult(conv, <<live, content, nat_err>>)
       IN /\ conv' = [r[1] EXCEPT !.alive = FALSE]
          /\ live' = r[2][1]
          /\ content' = r[2][2]
          /\ nat_err' = r[2][3]
    /\ cfg' = [cfg EXCEPT !.conv = <<>>, !.replaced.conv = FALSE]
    /\ call' = EngCall("destroy", "conv")
    /\ pre' = EngSnapshot
    /\ UNCHANGED <<td, pool, tens>>

\* A tensor of which only the shape is modelled.
Unvalued(sh) == [shape |-> sh, data |-> <<>>]

\* operator()(output, data, filters), of which only the shape of the output is
\* modelled: output.set_size(out_num_samples, out_k, out_nr, out_nc).
ConvForwardShape ==
    /\ ConvConfigured(conv)
    /\ tens.data.shape = cfg.conv.data
    /\ tens.filters.shape = cfg.conv.filters
    /\ tens' = [tens EXCEPT !.output =
                  Unvalued(<<conv.out_num_samples, conv.out_k, conv.out_nr, conv.out_nc>>)]
    /\ call' = EngCall("forward", "conv")
    /\ pre' = EngSnapshot
    /\ UNCHANGED <<natVars, td, engVars>>

PoolConstruct ==
    /\ ~pool.alive
    /\ pool' = PoolUnconfigured
    /\ cfg' = [cfg EXCEPT !.pool = <<>>, !.replaced.pool = FALSE]
    /\ call' = EngCall("construct", "pool")
    /\ pre' = EngSnapshot
    /\ UNCHANGED <<natVars, td, conv, tens>>

PoolSetup(w) ==
    /\ pool.alive
    /\ LET r == PoolSetupResult(pool, <<live, content, nat_err>>, w, 0)
       IN /\ pool' = r[1]
          /\ live' = r[2][1]
          /\ content' = r[2][2]
          /\ nat_err' = r[2][3]
    /\ cfg' = [cfg EXCEPT !.pool = w, !.replaced.pool = cfg.pool # <<>> /\ cfg.pool # w]
    /\ call' = EngCall("setup", "pool")
    /\ pre' = EngSnapshot
    /\ UNCHANGED <<td, conv, tens>>

\* setup(w) in which the creation of the pooling descriptor fails: the error is
\* reported and no configuration is in force.
PoolSetupFails(w) ==
    /\ pool.alive
    /\ LET r == PoolSetupResult(pool, <<live, content, nat_err>>, w, 1)
       IN /\ pool' = r[1]
          /\ live' = r[2][1]
          /\ content' = r[2][2]
          /\ nat_err' = r[2][3]
    /\ cfg' = [cfg EXCEPT !.pool = <<>>, !.replaced.pool = FALSE]
    /\ call' = EngCall("setup_failed", "pool")
    /\ pre' = EngSnapshot
    /\ UNCHANGED <<td, conv, tens>>

PoolClear ==
    /\ pool.alive
    /\ LET r == PoolClearResult(pool, <<live, content, nat_err>>)
       IN /\ pool' = r[1]
          /\ live' = r[2][1]
          /\ content' = r[2][2]
          /\ nat_err' = r[2][3]
    /\ cfg' = [cfg EXCEPT !.pool = <<>>, !.replaced.pool = FALSE]
    /\ call' = EngCall("clear", "pool")
    /\ pre' = EngSnapshot
    /\ UNCHANGED <<td, conv, tens>>

\* ~max_pool(): clear(), and the object is gone.
PoolDestroy ==
    /\ pool.alive
    /\ LET r == PoolClearResult(pool, <<live, content, nat_err>>)
       IN /\ pool' = [r[1] EXCEPT !.alive = FALSE]
          /\ live' = r[2][1]
          /\ content' = r[2][2]
          /\ nat_err' = r[2][3]
    /\ cfg' = [cfg EXCEPT !.pool = <<>>, !.replaced.pool = FALSE]
    /\ call' = EngCall("destroy", "pool")
    /\ pre' = EngSnapshot
    /\ UNCHANGED <<td, conv, tens>>

\* operator()(dest, src), t being the tensors the caller has prepared.
PoolForward(t) ==
    /\ PoolConfigured(pool)
    /\ t.src.shape[3] >= pool.stride_y
    /\ t.src.shape[4] >= pool.stride_x
    /\ tens' = [t EXCEPT !.dest = PoolForwardResult(pool, content[pool.handle], t.src)]
    /\ cfg' = [cfg EXCEPT !.ncalls.pg = 0]
    /\ call' = EngCall("forward", "pool")
    /\ pre' = EngSnapshot
    /\ UNCHANGED <<natVars, td, conv, pool>>

\* get_gradient(gradient_input, dest, src, grad)
PoolGetGradient ==
    /\ PoolConfigured(pool)
    /\ cfg.ncalls.pg < MaxGradCalls
    /\ tens.gradient_input.shape = tens.dest.shape
    /\ tens.src.shape = tens.grad.shape
    /\ tens.src.shape[3] >= pool.stride_y
    /\ tens.src.shape[4] >= pool.stride_x
    /\ tens.dest = PoolForwardResult(pool, content[pool.handle], tens.src)
    /\ tens' = [tens EXCEPT !.grad =
                  PoolGetGradientResult(pool, content[pool.handle], tens.gradient_input,
                                        tens.dest, tens.src, tens.grad)]
    /\ cfg' = [cfg EXCEPT !.ncalls.pg = @ + 1]
    /\ call' = EngCall("get_gradient", "pool")
    /\ pre' = EngSnapshot
    /\ UNCHANGED <<natVars, td, conv, pool>>

(***************************************************************************)
(* The life of one tensor_conv and one max_pool: construction, setup() on  *)
(* a few configurations, the forward operators, max_pool::get_gradient,    *)
(* clear() and destruction.  Of the tensors of the tensor_conv only the    *)
(* shapes are modelled.                                                    *)
(***************************************************************************)
ResConvConfigs ==
    {<<(<<1, 1, 4, 4>>), (<<1, 1, 2, 2>>), 1, 1>>,
     <<(<<1, 2, 5, 5>>), (<<3, 2, 1, 1>>), 2, 2>>,
     <<(<<2, 1, 3, 5>>), (<<1, 1, 3, 3>>), 1, 3>>,
     <<(<<1, 1, 0, 3>>), (<<1, 1, 1, 1>>), 2, 1>>}

ResPoolConfigs == {<<2, 2, 2, 2>>, <<3, 2, 1, 2>>}

ResPoolSrcShapes == {<<1, 1, 2, 3>>, <<2, 1, 3, 4>>}

ShapeOnlyTensors ==
    [data |-> Unvalued(<<0, 0, 0, 0>>), filters |-> Unvalued(<<0, 0, 0, 0>>),
     output |-> Unvalued(<<0, 0, 0, 0>>),
     src |-> Unvalued(<<0, 0, 0, 0>>), dest |-> Unvalued(<<0, 0, 0, 0>>),
     gradient_input |-> Unvalued(<<0, 0, 0, 0>>), grad |-> Unvalued(<<0, 0, 0, 0>>)]

\* The tensors the caller has ready when it calls max_pool::operator() on a src
\* of shape ssh: the src, a gradient_input of the dimensions of the output and
\* a grad of the dimensions of src.
PoolPrepared(t, ssh) ==
    [t EXCEPT !.src = Filled(ssh, 0),
              !.gradient_input = Filled(PoolOutShape(ssh, pool.stride_y, pool.stride_x), 0),
              !.grad = Constant(ssh, 1)]

InitRes ==
    /\ NatInit
    /\ td = [d \in Descs |-> TdGone]
    /\ conv = ConvUnconfigured
    /\ pool = PoolUnconfigured
    /\ cfg = NoCfg
    /\ tens = ShapeOnlyTensors
    /\ call = NoCall
    /\ pre = EngSnapshot

NextRes ==
    \/ ConvConstruct
    \/ \E k \in ResConvConfigs :
          ConvSetup([tens EXCEPT !.data = Unvalued(k[1]), !.filters = Unvalued(k[2])],
                    k[3], k[4])
    \/ \E k \in ResConvConfigs, fail \in 1..3 :
          ConvSetupFails([tens EXCEPT !.data = Unvalued(k[1]), !.filters = Unvalued(k[2])],
                         k[3], k[4], fail)
    \/ ConvForwardShape
    \/ ConvClear
    \/ ConvDestroy
    \/ PoolConstruct
    \/ \E w \in ResPoolConfigs : PoolSetup(w)
    \/ \E w \in ResPoolConfigs : PoolSetupFails(w)
    \/ \E ssh \in ResPoolSrcShapes : PoolForward(PoolPrepared(tens, ssh))
    \/ PoolGetGradient
    \/ PoolClear
    \/ PoolDestroy

SpecRes == InitRes /\ [][NextRes]_vars

\* What a tensor_conv configured by setup() with the arguments k caches.
ConvCacheIs(k) ==
    /\ content[conv.filter_handle] = k.filters
    /\ content[conv.conv_handle] = <<k.stride_y, k.stride_x>>
    /\ conv.stride_y = k.stride_y
    /\ conv.stride_x = k.stride_x
    /\ <<conv.out_num_samples, conv.out_k, conv.out_nr, conv.out_nc>> =
          ConvOutShape(k.data, k.filters, k.stride_y, k.stride_x)
    /\ conv.forward_algo = FwdAlgo(k)
    /\ conv.backward_data_algo = BwdDataAlgo(k)
    /\ conv.backward_filters_algo = BwdFiltersAlgo(k)
    /\ conv.forward_workspace_size_in_bytes = FwdWorkspaceBytes(k)
    /\ conv.backward_data_workspace_size_in_bytes = BwdDataWorkspaceBytes(k)
    /\ conv.backward_filters_workspace_size_in_bytes = BwdFiltersWorkspaceBytes(k)
    /\ content[conv.forward_workspace] =
          <<Max3(FwdWorkspaceBytes(k), BwdDataWorkspaceBytes(k), BwdFiltersWorkspaceBytes(k))>>
    /\ conv.backward_data_workspace = conv.forward_workspace
    /\ conv.backward_filters_workspace = conv.forward_workspace

\* C3: whenever an engine is Configured, everything it caches (descriptors,
\* strides, output dimensions, the three algorithms, the workspace sizes and
\* the scratch buffer) is what the setup() in force, the most recent one, derives
\* from its arguments, also when that setup() replaced another configuration;
\* an engine that is not Configured caches nothing; and the output of a forward
\* operator has the shape the setup() in force gives.
C3_CacheIsFromLastSetup ==
    /\ conv.alive =>
          IF ConvConfigured(conv)
          THEN cfg.conv # <<>> /\ ConvCacheIs(cfg.conv)
          ELSE cfg.conv = <<>> /\ conv = ConvUnconfigured
    /\ pool.alive =>
          IF PoolConfigured(pool)
          THEN /\ cfg.pool # <<>>
               /\ content[pool.handle] = cfg.pool
               /\ pool.stride_y = cfg.pool[3]
               /\ pool.stride_x = cfg.pool[4]
          ELSE cfg.pool = <<>> /\ pool = PoolUnconfigured
    /\ call.op = "forward" /\ call.who = "conv" =>
          tens.output.shape = ConvOutShape(cfg.conv.data, cfg.conv.filters,
                                           cfg.conv.stride_y, cfg.conv.stride_x)
    /\ call.op = "forward" /\ call.who = "pool" =>
          tens.dest.shape = <<tens.src.shape[1], tens.src.shape[2],
                              tens.src.shape[3] \div cfg.pool[3],
                              tens.src.shape[4] \div cfg.pool[4]>>

\* operator() of a tensor_conv whose setup() replaced a different configuration
\* without a clear() in between, while the max_pool is in the same situation.
C3_Witness ==
    /\ call.op = "forward" /\ call.who = "conv"
    /\ cfg.replaced.conv
    /\ cfg.replaced.pool
    /\ PoolConfigured(pool)
    /\ tens.output.shape = <<2, 1, 3, 2>>

\* The native handles the two engines hold.
HeldHandles ==
    {h \in Ids : \E i \in 1..5 : ConvHandles(conv)[i] = h} \cup
    {h \in Ids : pool.handle = h}

\* The number of native resources the two engines own.
HeldCount ==
    Cardinality({i \in 1..3 : ConvOwned(conv)[i] # NULL}) +
        (IF pool.handle # NULL THEN 1 ELSE 0)

\* C4: no native resource is released twice and none is leaked: the live
\* handles are exactly those the engines' members hold, and the descriptors
\* and the scratch buffer the engines own are all different; after clear(),
\* destruction or a setup() that failed, whichever of its native calls failed,
\* every handle the engine held before has been released and the engine holds
\* none (Unconfigured); a setup() that succeeds on a Configured engine has
\* released what the engine held; an engine that is gone holds none.
C4_NoLeakNoDoubleRelease ==
    /\ ~nat_err
    /\ live = HeldHandles
    /\ Cardinality(HeldHandles) = HeldCount
    /\ ~conv.alive => ConvHandles(conv) = <<NULL, NULL, NULL, NULL, NULL>>
    /\ ~pool.alive => pool.handle = NULL
    /\ call.op \in {"clear", "destroy", "setup_failed"} /\ call.who = "conv" =>
          /\ ConvHandles(conv) = <<NULL, NULL, NULL, NULL, NULL>>
          /\ ~ConvConfigured(conv)
          /\ \A i \in 1..5 : pre.handles.conv[i] # NULL => pre.handles.conv[i] \notin live
          /\ live = pre.live \ {pre.handles.conv[i] : i \in 1..5}
    /\ call.op \in {"clear", "destroy", "setup_failed"} /\ call.who = "pool" =>
          /\ pool.handle = NULL
          /\ pre.handles.pool[1] # NULL => pre.handles.pool[1] \notin live
          /\ live = pre.live \ {pre.handles.pool[1]}
    /\ call.op = "setup" /\ call.who = "conv" =>
          /\ \A i \in 1..3 : ConvOwned(conv)[i] \in live
          /\ Cardinality(live) = Cardinality(pre.live \ {pre.handles.conv[i] : i \in 1..5}) + 3
    /\ call.op = "setup" /\ call.who = "pool" =>
          /\ pool.handle \in live
          /\ Cardinality(live) = Cardinality(pre.live \ {pre.handles.pool[1]}) + 1

\* The tensor_conv is destroyed while Configured and holding its two
\* descriptors and its scratch buffer, the max_pool still holding its
\* descriptor.
C4_Witness ==
    /\ call.op = "destroy" /\ call.who = "conv"
    /\ \A i \in 1..5 : pre.handles.conv[i] # NULL
    /\ pool.handle \in live
    /\ Cardinality(pre.live) = 4
    /\ Cardinality(live) = 1

(***************************************************************************)
(* One tensor_conv set up for a data tensor and a filters tensor of any    *)
(* shape within the bounds (data without rows or columns included), with   *)
(* any strides, and set up again with other strides; of the tensors only   *)
(* the shapes are modelled.                                                *)
(***************************************************************************)
ConvDataShapes ==
    {<<n, 1, nr, nc>> : n \in {1, 2}, nr \in 0..MaxRows, nc \in 0..MaxRows}

\* One filter for one sample of data, three filters for two samples.
ConvFilterShapes(dsh) ==
    {<<2 * dsh[1] - 1, 1, nr, nc>> : nr \in 1..MaxFilter, nc \in {1, 2}}

InitConv ==
    /\ NatInit
    /\ td = [d \in Descs |-> TdGone]
    /\ conv = ConvUnconfigured
    /\ pool = PoolGone
    /\ cfg = NoCfg
    /\ \E dsh \in ConvDataShapes : \E fsh \in ConvFilterShapes(dsh) :
          tens = [ShapeOnlyTensors EXCEPT !.data = Unvalued(dsh), !.filters = Unvalued(fsh)]
    /\ call = NoCall
    /\ pre = EngSnapshot

NextConv ==
    \/ \E sy \in 1..MaxStride, sx \in 1..MaxStride : ConvSetup(tens, sy, sx)
    \/ \E sy \in 1..MaxStride, sx \in 1..MaxStride, fail \in 1..3 :
          ConvSetupFails(tens, sy, sx, fail)
    \/ ConvForwardShape
    \/ ConvClear

SpecConv == InitConv /\ [][NextConv]_vars

\* The least q with q*b >= a: a/b rounded up.
CeilDiv(a, b) == CHOOSE q \in 0..a : q * b >= a /\ (q = 0 \/ (q - 1) * b < a)

\* C2: for data with nr >= 1 and nc >= 1 the output of operator() has
\* num_samples == data.num_samples(), k == filters.num_samples(),
\* nr == 1+(data.nr()-1)/stride_y and nc == 1+(data.nc()-1)/stride_x, which
\* are data.nr()/stride_y and data.nc()/stride_x rounded up, whatever nr and
\* nc the filters have.
C2_OutputShape ==
    (/\ call.op = "forward" /\ call.who = "conv"
     /\ tens.data.shape[3] >= 1 /\ tens.data.shape[4] >= 1) =>
        LET d == tens.data.shape
            sy == cfg.conv.stride_y
            sx == cfg.conv.stride_x
        IN /\ tens.output.shape =
                <<d[1], tens.filters.shape[1], 1 + (d[3] - 1) \div sy, 1 + (d[4] - 1) \div sx>>
           /\ tens.output.shape[3] = CeilDiv(d[3], sy)
           /\ tens.output.shape[4] = CeilDiv(d[4], sx)

\* operator() on data whose nr is not a multiple of stride_y and whose nc is a
\* multiple of stride_x, with filters of 2 rows and 1 column.
C2_Witness ==
    /\ call.op = "forward" /\ call.who = "conv"
    /\ tens.data.shape = <<2, 1, 3, 4>>
    /\ tens.filters.shape = <<3, 1, 2, 1>>
    /\ cfg.conv.stride_y = 2 /\ cfg.conv.stride_x = 2
    /\ tens.output.shape = <<2, 3, 2, 2>>

IsC5Case ==
    /\ call.op = "forward" /\ call.who = "conv"
    /\ tens.data.shape = <<1, 1, 4, 4>>
    /\ tens.filters.shape = <<1, 1, 2, 2>>
    /\ cfg.conv.stride_y = 1 /\ cfg.conv.stride_x = 1

\* C5 as stated: 1x1x4x4 data and one 1x1x2x2 filter with strides 1 give an
\* output of shape 1x1x3x3.
C5_Output3x3 == IsC5Case => tens.output.shape = <<1, 1, 3, 3>>

\* C5 amended: 1x1x4x4 data and one 1x1x2x2 filter with strides 1 give an
\* output of shape 1x1x4x4, the nr and nc of the data.
C5_Output4x4 == IsC5Case => tens.output.shape = <<1, 1, 4, 4>>

\* operator() in the configuration of C5.
C5_Witness == IsC5Case /\ tens.output.shape[3] = tens.data.shape[3]

(***************************************************************************)
(* The arithmetic of tensor_conv for filters of one row and one column     *)
(* (for larger filters the header does not say how the border is treated): *)
(* OUT[n,f,r,c] is the sum over k of data[n,k,r*stride_y,c*stride_x] *     *)
(* filters[f,k,0,0], f(data,filters) == dot(OUT, gradient_input), and the  *)
(* two gradients are the derivatives of f.                                 *)
(***************************************************************************)
\* operator(): the output, of the cached dimensions.
ConvForwardResult(c, data, filters) ==
    LET osh == <<c.out_num_samples, c.out_k, c.out_nr, c.out_nc>>
    IN [shape |-> osh,
        data |-> [i \in 1..Size(osh) |->
            LET ix == Coords(osh, i)
            IN SeqSum([k \in 1..data.shape[2] |->
                   At(data, ix[1], k - 1, ix[3] * c.stride_y, ix[4] * c.stride_x)
                     * At(filters, ix[2], k - 1, 0, 0)])]]

\* The gradient of f with respect to data, at the element of data at place i.
DataGradientAt(c, gi, filters, dsh, i) ==
    LET ix == Coords(dsh, i)
    IN IF ix[3] % c.stride_y = 0 /\ ix[4] % c.stride_x = 0
       THEN SeqSum([f \in 1..filters.shape[1] |->
                At(gi, ix[1], f - 1, ix[3] \div c.stride_y, ix[4] \div c.stride_x)
                  * At(filters, f - 1, ix[2], 0, 0)])
       ELSE 0

\* get_gradient_for_data that assigns the gradient.
DataGradientAssign(c, gi, filters, dg) ==
    [dg EXCEPT !.data = [i \in 1..Size(dg.shape) |->
        DataGradientAt(c, gi, filters, dg.shape, i)]]

\* get_gradient_for_data: the gradient is added to data_gradient.
DataGradientResult(c, gi, filters, dg) ==
    [dg EXCEPT !.data = [i \in 1..Size(dg.shape) |->
        dg.data[i] + DataGradientAt(c, gi, filters, dg.shape, i)]]

\* get_gradient_for_filters: the gradient is assigned to filters_gradient.
FiltersGradientResult(c, gi, data, fg) ==
    [fg EXCEPT !.data = [i \in 1..Size(fg.shape) |->
        LET ix == Coords(fg.shape, i)
        IN SeqSum([n \in 1..gi.shape[1] |->
             SeqSum([r \in 1..gi.shape[3] |->
               SeqSum([x \in 1..gi.shape[4] |->
                 At(gi, n - 1, ix[1], r - 1, x - 1)
                   * At(data, n - 1, ix[2], (r - 1) * c.stride_y, (x - 1) * c.stride_x)])])])]]

\* requires: the tensors have the dimensions given to the last setup().
ConvShapesMatch ==
    /\ tens.data.shape = cfg.conv.data
    /\ tens.filters.shape = cfg.conv.filters

ConvForward ==
    /\ ConvConfigured(conv)
    /\ ConvShapesMatch
    /\ tens' = [tens EXCEPT !.output = ConvForwardResult(conv, tens.data, tens.filters)]
    /\ call' = EngCall("forward", "conv")
    /\ pre' = EngSnapshot
    /\ UNCHANGED <<natVars, td, engVars>>

GetGradientForData ==
    /\ ConvConfigured(conv)
    /\ cfg.ncalls.gd < MaxGradCalls
    /\ tens.filters.shape = cfg.conv.filters
    /\ tens.data_gradient.shape = cfg.conv.data
    /\ tens.gradient_input.shape =
          <<conv.out_num_samples, conv.out_k, conv.out_nr, conv.out_nc>>
    /\ tens' = [tens EXCEPT !.data_gradient =
                  DataGradientResult(conv, tens.gradient_input, tens.filters,
                                     tens.data_gradient)]
    /\ cfg' = [cfg EXCEPT !.ncalls.gd = @ + 1]
    /\ call' = EngCall("get_gradient_for_data", "conv")
    /\ pre' = EngSnapshot
    /\ UNCHANGED <<natVars, td, conv, pool>>

GetGradientForFilters ==
    /\ ConvConfigured(conv)
    /\ cfg.ncalls.gf < MaxGradCalls
    /\ tens.filters_gradient.shape = cfg.conv.filters
    /\ tens.data.shape = cfg.conv.data
    /\ tens.gradient_input.shape =
          <<conv.out_num_samples, conv.out_k, conv.out_nr, conv.out_nc>>
    /\ tens' = [tens EXCEPT !.filters_gradient =
                  FiltersGradientResult(conv, tens.gradient_input, tens.data,
                                        tens.filters_gradient)]
    /\ cfg' = [cfg EXCEPT !.ncalls.gf = @ + 1]
    /\ call' = EngCall("get_gradient_for_filters", "conv")
    /\ pre' = EngSnapshot
    /\ UNCHANGED <<natVars, td, conv, pool>>

GradDataShapes == {<<n, k, 1, nc>> : n \in {1, 2}, k \in {1, 2}, nc \in {1, 2, 3}}

\* The tensors the caller has ready when it calls setup() with strides sy, sx:
\* a gradient_input of the dimensions of the output, and the two gradient
\* tensors with their initial contents (kept in data_gradient0 and
\* filters_gradient0 for reference).
GradPrepared(t, sy, sx) ==
    [t EXCEPT !.output = Unvalued(<<0, 0, 0, 0>>),
              !.gradient_input =
                  Filled(ConvOutShape(t.data.shape, t.filters.shape, sy, sx), 1),
              !.data_gradient = t.data_gradient0,
              !.filters_gradient = t.filters_gradient0]

InitGrad ==
    /\ NatInit
    /\ td = [d \in Descs |-> TdGone]
    /\ conv = ConvUnconfigured
    /\ pool = PoolGone
    /\ cfg = NoCfg
    /\ \E dsh \in GradDataShapes, f \in {1, 2}, ds \in {0, 1}, fs \in {0, 1},
          dg0 \in {0, 5}, fg0 \in {0, 7} :
          LET fsh == <<f, dsh[2], 1, 1>>
          IN tens = [data |-> Filled(dsh, ds), filters |-> Filled(fsh, fs),
                     output |-> Unvalued(<<0, 0, 0, 0>>),
                     gradient_input |-> Unvalued(<<0, 0, 0, 0>>),
                     data_gradient |-> Constant(dsh, dg0),
                     filters_gradient |-> Constant(fsh, fg0),
                     data_gradient0 |-> Constant(dsh, dg0),
                     filters_gradient0 |-> Constant(fsh, fg0)]
    /\ call = NoCall
    /\ pre = EngSnapshot

NextGrad ==
    \/ \E sx \in {1, 2} : ConvSetup(GradPrepared(tens, 1, sx), 1, sx)
    \/ \E sx \in {1, 2}, fail \in 1..3 :
          ConvSetupFails(GradPrepared(tens, 1, sx), 1, sx, fail)
    \/ ConvForward
    \/ GetGradientForData
    \/ GetGradientForFilters
    \/ ConvClear

SpecGrad == InitGrad /\ [][NextGrad]_vars

\* The gradient of dot(OUT, gradient_input) with respect to data[n,k,y,x] and
\* with respect to filters[f,k,0,0], for the setup() in force.
GradWrtData(n, k, y, x) ==
    IF y % cfg.conv.stride_y = 0 /\ x % cfg.conv.stride_x = 0
    THEN SeqSum([f \in 1..tens.filters.shape[1] |->
            At(tens.gradient_input, n, f - 1, y \div cfg.conv.stride_y,
               x \div cfg.conv.stride_x) * At(tens.filters, f - 1, k, 0, 0)])
    ELSE 0

GradWrtFilters(f, k) ==
    LET g == tens.gradient_input
        cells == {<<n, r, c>> : n \in 0..(g.shape[1] - 1), r \in 0..(g.shape[3] - 1),
                                c \in 0..(g.shape[4] - 1)}
        term(m) == At(g, m[1], f, m[2], m[3])
                     * At(tens.data, m[1], k, m[2] * cfg.conv.stride_y,
                          m[3] * cfg.conv.stride_x)
        RECURSIVE Total(_)
        Total(S) == IF S = {} THEN 0
                    ELSE LET m == CHOOSE m \in S : TRUE IN term(m) + Total(S \ {m})
    IN Total(cells)

\* C1: after j calls of get_gradient_for_data with the same inputs,
\* data_gradient is its initial value plus j times the gradient (twice the
\* gradient after two calls); after one or more calls of
\* get_gradient_for_filters, filters_gradient is the gradient itself, the same
\* after the second call as after the first, whatever it held before.
C1_AccumulateVsAssign ==
    cfg.conv # <<>> =>
        LET dsh == tens.data.shape
            fsh == tens.filters.shape
        IN /\ tens.data_gradient.shape = dsh
           /\ \A n \in 0..(dsh[1] - 1), k \in 0..(dsh[2] - 1),
                 y \in 0..(dsh[3] - 1), x \in 0..(dsh[4] - 1) :
                   At(tens.data_gradient, n, k, y, x) =
                       At(tens.data_gradient0, n, k, y, x)
                     + cfg.ncalls.gd * GradWrtData(n, k, y, x)
           /\ cfg.ncalls.gf = 0 => tens.filters_gradient = tens.filters_gradient0
           /\ cfg.ncalls.gf >= 1 =>
                /\ tens.filters_gradient.shape = fsh
                /\ \A f \in 0..(fsh[1] - 1), k \in 0..(fsh[2] - 1) :
                      At(tens.filters_gradient, f, k, 0, 0) = GradWrtFilters(f, k)

\* Two calls of each gradient function after one setup, on gradient tensors
\* that held non-zero values, with a gradient that is not zero.
C1_Witness ==
    /\ cfg.conv # <<>>
    /\ cfg.ncalls.gd = 2
    /\ cfg.ncalls.gf = 2
    /\ tens.data_gradient0.data[1] = 5
    /\ tens.filters_gradient0.data[1] = 7
    /\ GradWrtData(0, 0, 0, 0) > 0
    /\ tens.data_gradient.data[1] = 5 + 2 * GradWrtData(0, 0, 0, 0)
    /\ tens.filters_gradient.data[1] # 7

\* A Configured tensor_conv holds one live scratch buffer, which the three
\* workspace pointers designate, of the size of the largest of the three
\* workspace requirements, hence of at least each of the three sizes cached;
\* it is the only buffer the engine holds.
SingleScratchBuffer ==
    ConvConfigured(conv) =>
        /\ conv.forward_workspace \in live
        /\ conv.backward_data_workspace = conv.forward_workspace
        /\ conv.backward_filters_workspace = conv.forward_workspace
        /\ live = {conv.filter_handle, conv.conv_handle, conv.forward_workspace}
        /\ Cardinality(live) = 3
        /\ content[conv.forward_workspace] =
              <<Max3(FwdWorkspaceBytes(cfg.conv), BwdDataWorkspaceBytes(cfg.conv),
                     BwdFiltersWorkspaceBytes(cfg.conv))>>
        /\ conv.forward_workspace_size_in_bytes = FwdWorkspaceBytes(cfg.conv)
        /\ conv.backward_data_workspace_size_in_bytes = BwdDataWorkspaceBytes(cfg.conv)
        /\ conv.backward_filters_workspace_size_in_bytes = BwdFiltersWorkspaceBytes(cfg.conv)
        /\ content[conv.forward_workspace][1] >= conv.forward_workspace_size_in_bytes
        /\ content[conv.forward_workspace][1] >= conv.backward_data_workspace_size_in_bytes
        /\ content[conv.forward_workspace][1] >= conv.backward_filters_workspace_size_in_bytes

====
